---- MODULE Spec2Model ----
(***************************************************************************)
(* Model of src/src/index.js: the stdio tool server that bridges tool      *)
(* invocations to the Quill desktop application over one WebSocket.        *)
(*                                                                         *)
(* State: the module-level variables ws, nextId and pending, the           *)
(* WebSocket instances created by ensureSocket (readyState, listeners),    *)
(* the armed timers, and one record per tool invocation holding the        *)
(* position of the CallToolRequestSchema handler / callBridge.             *)
(* What a step puts on the wire, returns to the host or reads from the     *)
(* socket is kept for one step in sent, returns and inbound.               *)
(* Time is counted in milliseconds; it advances only through Tick.         *)
(***************************************************************************)
EXTENDS FiniteSets, Integers, Sequences, TLC

\* ---- bounds of the model ------------------------------------------------
NumCalls == 2        \* tool invocations in one run
MaxSockets == 2      \* WebSocket instances created in one run
TickMs == 5000       \* largest amount of time one Tick lets pass

\* ---- program constants --------------------------------------------------
TIMEOUT_MS == 10000

Calls == 1..NumCalls
Sockets == 1..MaxSockets
Ids == 1..NumCalls

\* values of WebSocket.readyState; NONE marks an instance not created yet
CONNECTING == "CONNECTING"
OPEN == "OPEN"
CLOSING == "CLOSING"
CLOSED == "CLOSED"
NONE == "NONE"

VARIABLES
  env,         \* the process environment: [secret, timeoutMs]
  ws,          \* the held WebSocket (0 = undefined)
  readyState,  \* readyState of every WebSocket instance
  terminated,  \* instances on which terminate() was called
  authOk,      \* open instances on which an auth_ok message has arrived
  nextId,      \* the next correlation id
  pending,     \* the pending map: id -> the invocation its entry settles
  timers,      \* the armed per-call timers: id -> [call, left]
  call,        \* one record per tool invocation: where its handler stands,
               \* the timer and the listeners of its waitForOpen
  idLog,       \* the correlation ids handed out so far, in order
  sent,        \* the request frame the last step handed to send()
  returns,     \* what the last step settled: the handlers' results
  inbound      \* the message the last step handled:
               \* [seen, json, id, handshake, hasError]

vars == <<env, ws, readyState, terminated, authOk, nextId, pending, timers,
          call, idLog, sent, returns, inbound>>

\* ---- the environment ----------------------------------------------------
\* the shared secret set or not, and MCP_TOOL_TIMEOUT_MS (0 = not set): a
\* process started with neither variable, or with both
Envs == {[secret |-> FALSE, timeoutMs |-> 0], [secret |-> TRUE, timeoutMs |-> 5000]}

\* ---- tools ----------------------------------------------------------------
\* the schema version the ListToolsRequestSchema handler caches: it calls
\* nothing and caches nothing
cachedSchemaVersion == "none"

\* the tools the ListToolsRequestSchema handler returns
ListTools ==
  {"list_meetings", "get_meeting", "search_meetings", "get_minutes",
   "get_transcript", "list_notes", "get_note", "list_contacts", "get_contact",
   "search_contacts", "list_threads"}

\* the field of the reply the handler reads for a tool: "" = the whole reply,
\* "?" = no branch of the handler matches the name
ToolField(name) ==
  CASE name = "list_meetings" -> "meetings"
    [] name = "get_meeting" -> "meeting"
    [] name = "search_meetings" -> "meetings"
    [] name = "get_minutes" -> ""
    [] name = "get_transcript" -> ""
    [] name = "list_notes" -> "notes"
    [] name = "get_note" -> "note"
    [] name = "list_contacts" -> "contacts"
    [] name = "get_contact" -> "contact"
    [] name = "search_contacts" -> "contacts"
    [] name = "list_threads" -> "threads"
    [] OTHER -> "?"

\* the names the invocations of a run are drawn from
Names == {"list_meetings", "get_minutes", "no_such_tool"}

\* the keys of the params object callBridge is given for a tool
ToolParams(name) ==
  CASE name = "list_meetings" -> {"limit", "offset", "from", "to", "type", "q"}
    [] name = "get_meeting" -> {"id"}
    [] name = "search_meetings" -> {"query", "limit", "offset", "thread_id", "contact_ids"}
    [] name = "get_minutes" -> {"id", "prefer_existing_minutes"}
    [] name = "get_transcript" -> {"id"}
    [] name = "list_notes" -> {"meeting_id", "template_id", "include_body", "limit", "offset"}
    [] name = "get_note" -> {"id", "include_body"}
    [] name = "list_contacts" -> {"q", "limit", "offset"}
    [] name = "get_contact" -> {"id"}
    [] name = "search_contacts" -> {"query", "limit", "offset"}
    [] name = "list_threads" -> {"include_meetings", "meetings_limit"}
    [] OTHER -> {}

\* ---- results of one invocation -------------------------------------------
\* outcome of callBridge: "none" while running, "result" when it resolved,
\* otherwise the message of the Error it rejected with
NoResp == [isError |-> FALSE, text |-> "(none)"]

\* the value of the result field of a reply: absent, or an object
ResultShapes == {"undefined", "object"}

\* try block of the handler once callBridge resolved with data: the text is
\* JSON.stringify of data or of a field of it (JSON.stringify(undefined) is
\* undefined; reading a field of undefined throws a TypeError, which the
\* catch block returns)
HandlerReturn(name, data) ==
  IF ToolField(name) = ""
  THEN [isError |-> FALSE, text |-> IF data = "undefined" THEN "undefined" ELSE "json"]
  ELSE IF data = "undefined"
       THEN [isError |-> TRUE, text |-> "Error: TypeError"]
       ELSE [isError |-> FALSE, text |-> "json"]

\* mutant of HandlerCatch: the error result is built without isError
HandlerCatchPlain(message) == [isError |-> FALSE, text |-> "Error: " \o message]

\* catch block of the handler
HandlerCatch(message) == [isError |-> TRUE, text |-> "Error: " \o message]

IdleCall ==
  [pc |-> "idle", name |-> "", sock |-> 0, id |-> 0, openTimer |-> -1,
   listeners |-> {}, elapsed |-> 0]

\* no message was handled in the step
NoMessage ==
  [seen |-> FALSE, json |-> FALSE, id |-> 0, handshake |-> FALSE, hasError |-> FALSE]

\* no frame was sent in the step
NoFrame == [id |-> 0, method |-> "", params |-> {}, sock |-> 0]

\* the record of an invocation whose handler has returned
Returned(rec) ==
  [rec EXCEPT !.pc = "returned", !.name = "", !.sock = 0, !.id = 0,
              !.elapsed = 0]

\* the promise of invocation c resolves with data and the handler returns
\* (again: the promise had been settled before, so nothing is returned)
Resolved(c, data) ==
  [call |-> c, name |-> call[c].name, id |-> call[c].id, sock |-> call[c].sock,
   elapsed |-> call[c].elapsed, outcome |-> "result",
   resp |-> HandlerReturn(call[c].name, data), again |-> call[c].pc = "returned"]

\* the promise of invocation c rejects and the handler returns from its catch
Rejected(c, message) ==
  [call |-> c, name |-> call[c].name, id |-> call[c].id, sock |-> call[c].sock,
   elapsed |-> call[c].elapsed, outcome |-> message,
   resp |-> HandlerCatch(message), again |-> call[c].pc = "returned"]

TypeOK ==
  /\ env \in Envs
  /\ ws \in 0..MaxSockets
  /\ readyState \in [Sockets -> {NONE, CONNECTING, OPEN, CLOSING, CLOSED}]
  /\ terminated \in [Sockets -> BOOLEAN]
  /\ authOk \in [Sockets -> BOOLEAN]
  /\ nextId \in 1..(NumCalls + 1)
  /\ DOMAIN pending \subseteq Ids
  /\ DOMAIN timers \subseteq Ids
  /\ inbound.id \in 0..NumCalls
  /\ \A c \in Calls : call[c].pc \in {"idle", "waitOpen", "resume", "awaitReply", "returned"}
  /\ \A r \in returns : r.call \in Calls /\ r.resp.isError \in BOOLEAN

Init ==
  /\ env \in Envs
  /\ ws = 0
  /\ readyState = [s \in Sockets |-> NONE]
  /\ terminated = [s \in Sockets |-> FALSE]
  /\ authOk = [s \in Sockets |-> FALSE]
  /\ nextId = 1
  /\ pending = <<>>
  /\ timers = <<>>
  /\ call = [c \in Calls |-> IdleCall]
  /\ idLog = <<>>
  /\ sent = NoFrame
  /\ returns = {}
  /\ inbound = NoMessage

\* ---- helpers on the pending map -------------------------------------------
MapPut(m, k, v) == [i \in DOMAIN m \cup {k} |-> IF i = k THEN v ELSE m[i]]
MapDel(m, k) == [i \in DOMAIN m \ {k} |-> m[i]]

Min(S) == CHOOSE x \in S : \A y \in S : x <= y

\* ---- ensureSocket ----------------------------------------------------------
\* mutant of ensureSocketReuses: a connecting socket is not reused
ensureSocketReusesOpen(state) == state = OPEN

\* mutant of ensureSocketReuses: a closed socket is handed out again
ensureSocketReusesClosed(state) == state \in {OPEN, CONNECTING, CLOSED}

\* the held socket is returned as it is in these states
ensureSocketReuses(state) == state \in {OPEN, CONNECTING}

\* the held socket is terminated and dropped in these states
ensureSocketDiscards(state) == state \in {CLOSING, CLOSED}

ensureSocketKeeps == ws # 0 /\ ensureSocketReuses(readyState[ws])

\* the instance `new WebSocket(CLIENT_URL)` yields: the first one not yet used
FreeSockets == {s \in Sockets : readyState[s] = NONE}
NewSocket == Min(FreeSockets)

\* the socket ensureSocket returns
ensureSocket == IF ensureSocketKeeps THEN ws ELSE NewSocket

\* readyState after ensureSocket: a new instance starts CONNECTING
ensureSocketStates ==
  IF ensureSocketKeeps THEN readyState
  ELSE [readyState EXCEPT ![NewSocket] = CONNECTING]

\* terminate() is called on a held socket that is closing or closed
ensureSocketTerminated ==
  IF ws # 0 /\ ~ensureSocketReuses(readyState[ws]) /\ ensureSocketDiscards(readyState[ws])
  THEN [terminated EXCEPT ![ws] = TRUE]
  ELSE terminated

\* ---- waitForOpen -----------------------------------------------------------
\* the timer waitForOpen arms (its timeoutMs parameter is never passed)
waitForOpenTimeout == TIMEOUT_MS

\* the events waitForOpen listens to with sock.once
waitForOpenEvents == {"open", "close", "error"}

\* mutant of waitForOpen: the listeners are registered, no timer is armed
waitForOpenNoTimer(rec, state) ==
  IF state = OPEN
  THEN [rec EXCEPT !.pc = "resume"]
  ELSE [rec EXCEPT !.pc = "waitOpen", !.listeners = waitForOpenEvents]

\* waitForOpen(sock) with sock in `state`: resolved at once when open,
\* otherwise a timer is armed and the listeners are registered
waitForOpen(rec, state) ==
  IF state = OPEN
  THEN [rec EXCEPT !.pc = "resume"]
  ELSE [rec EXCEPT !.pc = "waitOpen", !.openTimer = waitForOpenTimeout,
                   !.listeners = waitForOpenEvents]

\* mutant of cleanup: the listeners are removed, the timer is left armed
cleanupKeepsTimer(rec) == [rec EXCEPT !.listeners = {}, !.elapsed = 0]

\* cleanup(): the timer is cleared and the three listeners are removed
cleanup(rec) == [rec EXCEPT !.openTimer = -1, !.listeners = {}, !.elapsed = 0]

\* a listener or the timer of waitForOpen runs for rec: cleanup(), then the
\* promise is settled; settling a settled promise changes nothing
waitForOpenResolves(rec) ==
  IF rec.pc = "waitOpen" THEN [cleanup(rec) EXCEPT !.pc = "resume"] ELSE cleanup(rec)

waitForOpenRejects(rec) ==
  IF rec.pc = "waitOpen" THEN Returned(cleanup(rec)) ELSE cleanup(rec)

\* ---- the CallToolRequestSchema handler up to its first await -------------
\* what a step that sends nothing, settles nothing and handles no message
\* leaves
Quiet == sent' = NoFrame /\ returns' = {} /\ inbound' = NoMessage

\* (invocations are numbered in the order they arrive)
Invoke(c, name) ==
  /\ call[c].pc = "idle"
  /\ \A b \in Calls : b < c => call[b].pc # "idle"
  /\ IF ToolField(name) = "?"
     THEN \* throw new Error(`Unknown tool: ${name}`), caught by the handler
          /\ call' = [call EXCEPT ![c] = Returned(@)]
          /\ returns' = {[Rejected(c, "Unknown tool") EXCEPT !.name = name]}
          /\ UNCHANGED <<ws, readyState, terminated>>
     ELSE \* callBridge: ensureSocket(), then await waitForOpen(sock)
          /\ ensureSocketKeeps \/ FreeSockets # {}
          /\ ws' = ensureSocket
          /\ readyState' = ensureSocketStates
          /\ terminated' = ensureSocketTerminated
          /\ call' = [call EXCEPT ![c] =
                        waitForOpen([@ EXCEPT !.name = name, !.sock = ensureSocket],
                                    ensureSocketStates[ensureSocket])]
          /\ returns' = {}
  /\ sent' = NoFrame
  /\ inbound' = NoMessage
  /\ UNCHANGED <<env, authOk, nextId, pending, timers, idLog>>

\* ---- callBridge after `await waitForOpen(sock)` ---------------------------
\* the delay of the timer armed for a pending entry
callTimeout == TIMEOUT_MS

\* mutant of callBridgeMaySend: readyState is not looked at after the wait
callBridgeMaySendUnchecked(state) == TRUE

\* the request is sent only when the socket is open
callBridgeMaySend(state) == state = OPEN

\* mutant of IdAfter: nextId is not incremented
IdAfterSame(id) == id

\* the id after the one just used (nextId++)
IdAfter(id) == id + 1

\* the params object of the request frame
callBridgeParams(name) == ToolParams(name)

\* the continuation of callBridge runs as a job of its own once waitForOpen
\* has resolved
Resume(c) ==
  /\ call[c].pc = "resume"
  /\ IF ~callBridgeMaySend(readyState[call[c].sock])
     THEN \* throw new Error('socket_not_open')
          /\ call' = [call EXCEPT ![c] = Returned(@)]
          /\ returns' = {Rejected(c, "socket_not_open")}
          /\ sent' = NoFrame
          /\ UNCHANGED <<nextId, pending, timers, idLog>>
     ELSE /\ nextId <= NumCalls
          /\ nextId' = IdAfter(nextId)
          /\ idLog' = Append(idLog, nextId)
          /\ timers' = MapPut(timers, nextId, [call |-> c, left |-> callTimeout])
          /\ pending' = MapPut(pending, nextId, c)
          /\ sent' = [id |-> nextId, method |-> call[c].name,
                      params |-> callBridgeParams(call[c].name), sock |-> call[c].sock]
          /\ call' = [call EXCEPT ![c] =
                        [@ EXCEPT !.pc = "awaitReply", !.id = nextId, !.elapsed = 0]]
          /\ returns' = {}
  /\ inbound' = NoMessage
  /\ UNCHANGED <<env, ws, readyState, terminated, authOk>>

\* the continuation of callBridge when send() itself throws: the id is taken,
\* the timer armed and the entry set before the call of send(), which is in no
\* try block, so callBridge rejects with the error send() threw and the
\* promise of the entry is left to its timer
ResumeSendThrows(c) ==
  /\ call[c].pc = "resume"
  /\ callBridgeMaySend(readyState[call[c].sock])
  /\ nextId <= NumCalls
  /\ nextId' = IdAfter(nextId)
  /\ idLog' = Append(idLog, nextId)
  /\ timers' = MapPut(timers, nextId, [call |-> c, left |-> callTimeout])
  /\ pending' = MapPut(pending, nextId, c)
  /\ call' = [call EXCEPT ![c] = Returned(@)]
  /\ returns' = {[Rejected(c, "send_error") EXCEPT !.id = nextId]}
  /\ sent' = NoFrame
  /\ inbound' = NoMessage
  /\ UNCHANGED <<env, ws, readyState, terminated, authOk>>

\* the completion callback of send() reports an error for the request of c
\* (a callback without error does nothing; one that runs after the call was
\* settled finds no entry and does nothing)
SendCallback(c) ==
  /\ call[c].pc = "awaitReply"
  /\ IF call[c].id \in DOMAIN pending
     THEN /\ timers' = MapDel(timers, call[c].id)
          /\ pending' = MapDel(pending, call[c].id)
          /\ call' = [call EXCEPT ![pending[call[c].id]] = Returned(@)]
          /\ returns' = {Rejected(pending[call[c].id], "send_error")}
     ELSE /\ returns' = {}
          /\ UNCHANGED <<pending, timers, call>>
  /\ sent' = NoFrame
  /\ inbound' = NoMessage
  /\ UNCHANGED <<env, ws, readyState, terminated, authOk, nextId, idLog>>

\* ---- the message handler registered by ensureSocket ----------------------
\* error field of a reply: absent, the empty string, an application error
\* string, or the serialized schema-mismatch error
ErrorValues == {"absent", "", "app_error", "schema_outdated"}

\* the type tags of the handshake messages
HandshakeTypes == {"nonce", "auth_ok"}

\* inbound messages: text that is not JSON, or a JSON object with an optional
\* type tag, an optional id (0 = none), an error field and a result field
\* (a handshake message carries neither error nor result; a reply with an
\* error field carries no result)
Messages ==
  {[json |-> FALSE, type |-> "", id |-> 0, error |-> "absent", result |-> "undefined"]}
  \cup [json : {TRUE}, type : HandshakeTypes, id : 0..NumCalls,
        error : {"absent"}, result : {"undefined"}]
  \cup [json : {TRUE}, type : {""}, id : 0..NumCalls,
        error : {"absent"}, result : ResultShapes]
  \cup [json : {TRUE}, type : {""}, id : 0..NumCalls,
        error : ErrorValues \ {"absent"}, result : {"undefined"}]

\* `if (error)`: the error field is there and not the empty string
ErrorTruthy(error) == error \notin {"absent", ""}

\* mutant of MessageEntry: a reply with an unknown id settles the oldest entry
MessageEntryOldest(m) ==
  IF ~m.json THEN 0
  ELSE IF m.id = 0 THEN 0
  ELSE IF m.id \notin DOMAIN pending
       THEN (IF DOMAIN pending = {} THEN 0 ELSE Min(DOMAIN pending))
  ELSE m.id

\* mutant of MessageEntry: replies are matched to calls in the order sent
MessageEntryFifo(m) ==
  IF ~m.json THEN 0
  ELSE IF m.id = 0 THEN 0
  ELSE IF m.id \notin DOMAIN pending THEN 0
  ELSE Min(DOMAIN pending)

\* the entry the handler settles for a message, 0 when it returns early:
\* JSON.parse throws, `if (!id) return`, `if (!entry) return`
MessageEntry(m) ==
  IF ~m.json THEN 0
  ELSE IF m.id = 0 THEN 0
  ELSE IF m.id \notin DOMAIN pending THEN 0
  ELSE m.id

\* the message the handler is run with: whether JSON.parse accepts it, the id
\* it bears, whether it is tagged as a handshake message and whether it has
\* an error field
MessageRead(m) ==
  [seen |-> TRUE, json |-> m.json, id |-> IF m.json THEN m.id ELSE 0,
   handshake |-> m.json /\ m.type \in HandshakeTypes,
   hasError |-> m.json /\ m.error # "absent"]

\* mutant of messageLeaves: the handler settles the entry and leaves it in
\* the map
messageLeavesKept(p, id) == p

\* the pending map after the handler found the entry: pending.delete(String(id))
messageLeaves(p, id) == MapDel(p, id)

Message(s, m) ==
  /\ readyState[s] = OPEN
  /\ authOk' = IF m.json /\ m.type = "auth_ok" THEN [authOk EXCEPT ![s] = TRUE] ELSE authOk
  /\ IF MessageEntry(m) = 0
     THEN /\ returns' = {}
          /\ UNCHANGED <<pending, timers, call>>
     ELSE LET id == MessageEntry(m)
              c == pending[id]
          IN /\ pending' = messageLeaves(pending, id)
             /\ timers' = MapDel(timers, id)
             /\ call' = [call EXCEPT ![c] = Returned(@)]
             /\ returns' = {IF ErrorTruthy(m.error)
                            THEN Rejected(c, m.error)
                            ELSE Resolved(c, m.result)}
  /\ sent' = NoFrame
  /\ inbound' = MessageRead(m)
  /\ UNCHANGED <<env, ws, readyState, terminated, nextId, idLog>>

\* ---- socket events --------------------------------------------------------
\* calls whose waitForOpen has a listener for event ev registered on s
Listening(s, ev) == {c \in Calls : ev \in call[c].listeners /\ call[c].sock = s}

\* those of them whose promise is not settled yet
Waiters(s, ev) == {c \in Listening(s, ev) : call[c].pc = "waitOpen"}

\* the connection is established: 'open' runs onOpen of every waiter
SocketOpen(s) ==
  /\ readyState[s] = CONNECTING
  /\ readyState' = [readyState EXCEPT ![s] = OPEN]
  /\ call' = [c \in Calls |->
                IF c \in Listening(s, "open")
                THEN waitForOpenResolves(call[c])
                ELSE call[c]]
  /\ Quiet
  /\ UNCHANGED <<env, ws, terminated, authOk, nextId, pending, timers, idLog>>

\* a transport error: 'error' runs onError of every waiter, the socket is
\* closing afterwards and its 'close' follows
SocketError(s) ==
  /\ readyState[s] \in {CONNECTING, OPEN}
  /\ readyState' = [readyState EXCEPT ![s] = CLOSING]
  /\ authOk' = [authOk EXCEPT ![s] = FALSE]
  /\ call' = [c \in Calls |->
                IF c \in Listening(s, "error")
                THEN waitForOpenRejects(call[c])
                ELSE call[c]]
  /\ returns' = {Rejected(c, "socket_error") : c \in Waiters(s, "error")}
  /\ sent' = NoFrame
  /\ inbound' = NoMessage
  /\ UNCHANGED <<env, ws, terminated, nextId, pending, timers, idLog>>

\* the closing handshake starts: no event is emitted
SocketClosing(s) ==
  /\ readyState[s] = OPEN
  /\ readyState' = [readyState EXCEPT ![s] = CLOSING]
  /\ authOk' = [authOk EXCEPT ![s] = FALSE]
  /\ Quiet
  /\ UNCHANGED <<env, ws, terminated, nextId, pending, timers, call, idLog>>

\* the calls the close handler rejects: every entry of the pending map
closeRejects(p) == {p[i] : i \in DOMAIN p}

\* the timers left armed by the close handler: clearTimeout(entry.timer)
closeClears(t, p) == [i \in DOMAIN t \ DOMAIN p |-> t[i]]

\* mutant of closeLeaves: the close handler does not clear the map
closeLeavesKept(p) == p

\* the pending map after the close handler: pending.clear()
closeLeaves(p) == <<>>

\* 'close' of s: the close handler registered by ensureSocket, then onClose
\* of every waiter
SocketClose(s) ==
  /\ readyState[s] \in {CONNECTING, OPEN, CLOSING}
  /\ readyState' = [readyState EXCEPT ![s] = CLOSED]
  /\ authOk' = [authOk EXCEPT ![s] = FALSE]
  /\ timers' = closeClears(timers, pending)
  /\ pending' = closeLeaves(pending)
  /\ call' = [c \in Calls |->
                IF c \in closeRejects(pending) THEN Returned(call[c])
                ELSE IF c \in Listening(s, "close") THEN waitForOpenRejects(call[c])
                ELSE call[c]]
  /\ returns' = {Rejected(c, "socket_closed") :
                   c \in closeRejects(pending) \cup Waiters(s, "close")}
  /\ sent' = NoFrame
  /\ inbound' = NoMessage
  /\ UNCHANGED <<env, ws, terminated, nextId, idLog>>

\* ---- timers ----------------------------------------------------------------
ArmedTimers ==
  {call[c].openTimer : c \in {x \in Calls : call[x].openTimer >= 0}}
  \cup {timers[i].left : i \in DOMAIN timers}

\* time passes, never beyond the moment an armed timer is due
Tick ==
  /\ ArmedTimers # {}
  /\ \A t \in ArmedTimers : t > 0
  /\ LET d == Min(ArmedTimers \cup {TickMs})
     IN /\ timers' = [i \in DOMAIN timers |-> [timers[i] EXCEPT !.left = @ - d]]
        /\ call' = [c \in Calls |->
                      [call[c] EXCEPT
                         !.openTimer = IF @ >= 0 THEN @ - d ELSE @,
                         !.elapsed = IF call[c].pc \in {"waitOpen", "awaitReply"}
                                     THEN @ + d ELSE @]]
  /\ Quiet
  /\ UNCHANGED <<env, ws, readyState, terminated, authOk, nextId, pending, idLog>>

\* the timer of waitForOpen fires
OpenTimeout(c) ==
  /\ call[c].openTimer = 0
  /\ call' = [call EXCEPT ![c] = waitForOpenRejects(@)]
  /\ returns' = IF call[c].pc = "waitOpen"
                THEN {Rejected(c, "socket_open_timeout")}
                ELSE {}
  /\ sent' = NoFrame
  /\ inbound' = NoMessage
  /\ UNCHANGED <<env, ws, readyState, terminated, authOk, nextId, pending, timers, idLog>>

\* mutant of timeoutLeaves: the timer callback does not delete the entry
timeoutLeavesKept(p, id) == p

\* the pending map after the timer callback of id: pending.delete(id)
timeoutLeaves(p, id) == MapDel(p, id)

\* the timer of a call fires: its callback deletes the entry and rejects
CallTimeout(id) ==
  /\ id \in DOMAIN timers
  /\ timers[id].left = 0
  /\ timers' = MapDel(timers, id)
  /\ pending' = timeoutLeaves(pending, id)
  /\ call' = [call EXCEPT ![timers[id].call] = Returned(@)]
  /\ returns' = {Rejected(timers[id].call, "timeout")}
  /\ sent' = NoFrame
  /\ inbound' = NoMessage
  /\ UNCHANGED <<env, ws, readyState, terminated, authOk, nextId, idLog>>

\* ---- the specification ------------------------------------------------------
Next ==
  \/ \E c \in Calls, name \in Names : Invoke(c, name)
  \/ \E c \in Calls : Resume(c)
  \/ \E c \in Calls : SendCallback(c)
  \/ \E s \in Sockets, m \in Messages : Message(s, m)
  \/ \E s \in Sockets : SocketOpen(s)
  \/ \E s \in Sockets : SocketError(s)
  \/ \E s \in Sockets : SocketClosing(s)
  \/ \E s \in Sockets : SocketClose(s)
  \/ Tick
  \/ \E c \in Calls : OpenTimeout(c)
  \/ \E id \in Ids : CallTimeout(id)

Spec == Init /\ [][Next]_vars

\* the program with a send() that may also fail by throwing
NextSendThrows ==
  \/ Next
  \/ \E c \in Calls : ResumeSendThrows(c)

SpecSendThrows == Init /\ [][NextSendThrows]_vars

\* the program under the scheduling of the event loop: time passes while a
\* timer is armed, a timer that is due fires, and the continuation of
\* callBridge runs once waitForOpen has resolved; nothing is assumed about the
\* peer or the network
Fairness ==
  /\ WF_vars(Tick)
  /\ \A c \in Calls : WF_vars(Resume(c))
  /\ \A c \in Calls : WF_vars(OpenTimeout(c))
  /\ \A id \in Ids : WF_vars(CallTimeout(id))

FairSpec == Spec /\ Fairness

\* ==== the claims ============================================================

\* C1: no request frame is written to the transport until an auth_ok
\* handshake message has been received on the connection it is written to.
\* (callBridge sends as soon as the socket is open: violated.)
C1_NoFrameBeforeAuthOk == sent # NoFrame => authOk[sent.sock]

\* C2: on every close event each call that was in the pending map is rejected
\* exactly once with the close error, its timer is cleared, and the pending
\* map is empty when the close handler returns; no promise is settled twice.
C2_CloseDrainsPending ==
  [][/\ \A r \in returns' : ~r.again
     /\ \A s \in Sockets :
          (readyState[s] # CLOSED /\ readyState'[s] = CLOSED) =>
            /\ pending' = <<>>
            /\ \A i \in DOMAIN pending :
                 /\ Cardinality({r \in returns' : r.call = pending[i]}) = 1
                 /\ \A r \in returns' :
                      r.call = pending[i] => r.outcome = "socket_closed" /\ r.id = i
                 /\ call'[pending[i]].pc = "returned"
                 /\ i \notin DOMAIN timers']_vars

\* C2 witness: a close event has just rejected two pending calls
C2_Witness ==
  /\ \E s \in Sockets : readyState[s] = CLOSED
  /\ pending = <<>>
  /\ Cardinality({r \in returns : r.outcome = "socket_closed" /\ r.id # 0}) = 2

\* C3: a call is rejected with the timeout error exactly when its timer fires,
\* TIMEOUT_MS after the request was sent; its entry leaves the pending map in
\* that step; the timeout result differs from the close result.
C3_TimeoutRejects ==
  /\ \A i \in DOMAIN timers :
       /\ timers[i].left >= 0
       /\ call[timers[i].call].pc = "awaitReply" =>
            call[timers[i].call].elapsed + timers[i].left = TIMEOUT_MS
  /\ \A r \in returns :
       r.outcome = "timeout" =>
         /\ r.elapsed = TIMEOUT_MS
         /\ r.id \notin DOMAIN pending
         /\ r.id \notin DOMAIN timers
         /\ call[r.call].pc = "returned"
         /\ ~r.again
         /\ r.resp = [isError |-> TRUE, text |-> "Error: timeout"]
         /\ r.resp # HandlerCatch("socket_closed")

\* C3 witness: a call has just timed out on a connection that is still open
C3_Witness ==
  \E r \in returns : r.outcome = "timeout" /\ r.sock # 0 /\ readyState[r.sock] = OPEN

\* C4: the correlation ids handed out are strictly increasing in the order of
\* the sends and none is handed out twice, whatever happened in between.
C4_IdsIncrease ==
  /\ \A i, j \in 1..Len(idLog) : i < j => idLog[i] < idLog[j]
  /\ \A i \in 1..Len(idLog) : idLog[i] < nextId
  /\ sent # NoFrame => Len(idLog) > 0 /\ sent.id = idLog[Len(idLog)]
  /\ \A i \in DOMAIN pending : \E k \in 1..Len(idLog) : idLog[k] = i

\* C4 witness: the second id is sent on a second connection, after the first
\* connection was lost
C4_Witness == sent.id = 2 /\ sent.sock = 2 /\ readyState[1] = CLOSED

\* C5: a message that is not JSON, carries no id, or carries an id with no
\* entry in the pending map changes nothing: no entry is created or settled,
\* no timer is touched, nothing is returned and the connection stays as it is.
C5_DroppedMessageIsNoOp ==
  [][(inbound'.seen
        /\ (~inbound'.json \/ inbound'.id = 0 \/ inbound'.id \notin DOMAIN pending)) =>
       /\ pending' = pending
       /\ timers' = timers
       /\ call' = call
       /\ returns' = {}
       /\ readyState' = readyState
       /\ ws' = ws
       /\ nextId' = nextId]_vars

\* C5 witness: a late reply to call 1, which has already returned, was dropped
\* while call 2 is pending
C5_Witness ==
  /\ inbound.seen /\ inbound.json /\ inbound.id = 1
  /\ Len(idLog) = 2
  /\ DOMAIN pending = {2}
  /\ \E s \in Sockets : readyState[s] = OPEN

\* C6: a reply settles the call whose id it bears and no other: every other
\* pending entry, its timer and its call are left as they were.
C6_ReplySettlesOnlyItsCall ==
  [][(inbound'.seen /\ inbound'.json /\ inbound'.id \in DOMAIN pending) =>
       /\ DOMAIN pending' = DOMAIN pending \ {inbound'.id}
       /\ \A i \in DOMAIN pending' :
            /\ pending'[i] = pending[i]
            /\ i \in DOMAIN timers' /\ i \in DOMAIN timers
            /\ timers'[i] = timers[i]
            /\ call'[pending[i]] = call[pending[i]]
       /\ returns' # {}
       /\ \A r \in returns' : r.call = pending[inbound'.id] /\ r.id = inbound'.id]_vars

\* C6 witness: B (id 2) has just resolved while A (id 1) is still pending
\* with its timer armed
C6_Witness ==
  /\ 1 \in DOMAIN pending /\ 1 \in DOMAIN timers
  /\ call[pending[1]].pc = "awaitReply"
  /\ inbound.seen /\ inbound.json /\ inbound.id = 2
  /\ \E r \in returns : r.id = 2 /\ r.outcome = "result"

\* C7: the handler returns a content result for every tool name and every
\* outcome of callBridge, and with isError set whenever callBridge rejected
\* or the name is unknown.
C7_HandlerNeverThrows ==
  \A r \in returns :
    /\ r.outcome # "result" => r.resp = [isError |-> TRUE, text |-> "Error: " \o r.outcome]
    /\ r.outcome = "result" =>
         /\ r.resp.text \in {"json", "undefined", "Error: TypeError"}
         /\ r.resp.isError <=> r.resp.text = "Error: TypeError"

\* C7 witness: a reply without a result to a tool that reads a field of it
\* (the TypeError is caught and returned)
C7_Witness == \E r \in returns : r.outcome = "result" /\ r.resp.isError

\* C8: with the shared secret unset no request frame is sent and no call
\* succeeds.  (callBridge never reads the environment: violated.)
C8_NoFrameWithoutSecret ==
  ~env.secret => (sent = NoFrame /\ \A r \in returns : r.outcome # "result")

\* C9: at most one connection is connecting or open, and it is the held one;
\* every other instance was terminated when it was closing or closed; calls
\* waiting for the connection all wait on the held one.
C9_OneConnection ==
  /\ Cardinality({s \in Sockets : readyState[s] \in {CONNECTING, OPEN}}) <= 1
  /\ \A s \in Sockets : readyState[s] \in {CONNECTING, OPEN} => s = ws
  /\ \A s \in Sockets :
       (readyState[s] # NONE /\ s # ws) =>
         terminated[s] /\ readyState[s] \in {CLOSING, CLOSED}
  /\ \A c \in Calls :
       call[c].pc = "waitOpen" => call[c].sock = ws /\ readyState[ws] = CONNECTING

\* C9 witness: a closing handle was terminated and replaced
C9_Witness ==
  /\ ws = 2 /\ terminated[1]
  /\ readyState[1] = CLOSING /\ readyState[2] = CONNECTING

\* C10: a request sent while a schema version is cached carries
\* _clientSchemaVersion, and a schema_outdated error yields a result that
\* tells the caller to retry.  (The error is returned like any other:
\* violated.)
C10_SchemaVersion ==
  /\ (sent # NoFrame /\ cachedSchemaVersion # "none") =>
       "_clientSchemaVersion" \in sent.params
  /\ \A r \in returns :
       r.outcome = "schema_outdated" =>
         r.resp = [isError |-> TRUE, text |-> "schema outdated, retry"]

\* C11: the window of the per-call timer and of the wait for the connection
\* to open is the value of MCP_TOOL_TIMEOUT_MS when the environment sets it,
\* and 10000 ms only when it does not.  (Both timers are armed with
\* TIMEOUT_MS whatever the environment holds: violated.)
C11_TimeoutOverride ==
  LET window == IF env.timeoutMs # 0 THEN env.timeoutMs ELSE 10000
  IN /\ \A i \in DOMAIN timers : timers[i].left <= window
     /\ \A c \in Calls : call[c].pc = "waitOpen" => call[c].openTimer <= window
     /\ \A r \in returns :
          r.outcome \in {"timeout", "socket_open_timeout"} => r.elapsed = window

\* C12: waitForOpen settles exactly once, with whichever of open, close,
\* error and its timer comes first: it resolves only when the connection
\* opens (or at once when it is open already) and rejects on close, error and
\* timer expiry; once it has settled its timer is cleared and none of its
\* listeners is left on the connection.
C12_WaitForOpenSettlesOnce ==
  [][/\ \A c \in Calls :
          /\ call'[c].pc = "waitOpen" =>
               call'[c].listeners = waitForOpenEvents /\ call'[c].openTimer >= 0
          /\ call'[c].pc # "waitOpen" =>
               call'[c].listeners = {} /\ call'[c].openTimer = -1
          /\ (call[c].pc = "idle" /\ call'[c].pc = "resume") =>
               readyState[call'[c].sock] = OPEN
          /\ (call[c].pc = "waitOpen" /\ call'[c].pc # "waitOpen") =>
               \/ /\ call'[c].pc = "resume"
                  /\ readyState[call[c].sock] = CONNECTING
                  /\ readyState'[call[c].sock] = OPEN
                  /\ \A r \in returns' : r.call # c
               \/ /\ call'[c].pc = "returned"
                  /\ Cardinality({r \in returns' : r.call = c}) = 1
                  /\ \A r \in returns' :
                       r.call = c =>
                         /\ ~r.again /\ r.id = 0
                         /\ \/ /\ r.outcome = "socket_closed"
                               /\ readyState[call[c].sock] # CLOSED
                               /\ readyState'[call[c].sock] = CLOSED
                            \/ /\ r.outcome = "socket_error"
                               /\ readyState[call[c].sock] # CLOSING
                               /\ readyState'[call[c].sock] = CLOSING
                            \/ /\ r.outcome = "socket_open_timeout"
                               /\ call[c].openTimer = 0
                               /\ r.elapsed = waitForOpenTimeout
     /\ \A r \in returns' :
          (r.outcome \in {"socket_error", "socket_open_timeout"}
             \/ (r.outcome = "socket_closed" /\ r.id = 0)) =>
            call[r.call].pc = "waitOpen"]_vars

\* C12 witness: two calls waited on a connection that did not open, and the
\* timer of the first has just fired while the second still waits
C12_Witness ==
  /\ \E r \in returns :
       r.outcome = "socket_open_timeout" /\ readyState[r.sock] = CONNECTING
  /\ \E c \in Calls : call[c].pc = "waitOpen" /\ call[c].openTimer > 0

\* C13: a request frame is written only to a connection that is open at the
\* moment of the send; a call that resumes after the wait on a connection
\* that is no longer open fails with socket_not_open, and takes no id, makes
\* no pending entry, arms no timer and sends nothing.
C13_SendsOnlyWhenOpen ==
  [][/\ sent' # NoFrame =>
          readyState[sent'.sock] = OPEN /\ readyState'[sent'.sock] = OPEN
     /\ \A c \in Calls :
          (call[c].pc = "resume" /\ call'[c].pc # "resume"
             /\ readyState[call[c].sock] # OPEN) =>
            /\ \E r \in returns' : r.call = c /\ r.outcome = "socket_not_open"
            /\ call'[c].pc = "returned"
     /\ \A r \in returns' :
          r.outcome = "socket_not_open" =>
            /\ call[r.call].pc = "resume"
            /\ readyState[r.sock] # OPEN
            /\ r.id = 0
            /\ nextId' = nextId /\ idLog' = idLog
            /\ pending' = pending /\ timers' = timers
            /\ sent' = NoFrame]_vars

\* C13 witness: the connection opened, then started closing before the call
\* resumed, and the call has just failed with socket_not_open
C13_Witness ==
  \E r \in returns :
    r.outcome = "socket_not_open" /\ readyState[r.sock] \in {CLOSING, CLOSED}

\* C14: when the send of a request fails, by an exception of send() or by an
\* error given to its callback, the entry of that call is settled at once: the
\* call is rejected with the send error and neither an entry nor an armed
\* timer is left for its id.  (Nothing catches an exception of send(): the
\* entry and its timer stay: violated.)
C14_SendFailureSettlesEntry ==
  \A r \in returns :
    r.outcome = "send_error" =>
      /\ r.id # 0
      /\ r.id \notin DOMAIN pending
      /\ r.id \notin DOMAIN timers
      /\ call[r.call].pc = "returned"
      /\ r.resp = HandlerCatch("send_error")

\* C15: a reply to a pending call that carries an error field, whatever its
\* value, rejects the call with that error; the call is resolved with the
\* result only when the reply carries no error field.  (`if (error)` takes an
\* empty error string for no error and resolves: violated.)
C15_ErrorFieldRejects ==
  \A r \in returns :
    (inbound.seen /\ r.id = inbound.id) =>
      /\ inbound.hasError =>
           /\ r.outcome \in ErrorValues \ {"absent"}
           /\ r.resp = HandlerCatch(r.outcome)
      /\ ~inbound.hasError => r.outcome = "result"

\* C16: a message tagged nonce or auth_ok never touches the pending map: in
\* a step that handles one, even one bearing the id of a pending call, no
\* call is settled.  (The handler never looks at the tag: such a message
\* with the id of a pending call resolves it: violated.)
C16_HandshakeLeavesPending ==
  (inbound.seen /\ inbound.handshake) => returns = {}

C18_NoAutomaticRetry ==
  [][/\ \A s \in Sockets :
          (readyState[s] = NONE /\ readyState'[s] # NONE) =>
            /\ readyState'[s] = CONNECTING /\ ws' = s
            /\ \E c \in Calls :
                 call[c].pc = "idle" /\ call'[c].pc # "idle" /\ call'[c].sock = s
     /\ ws' # ws =>
          \E c \in Calls : call[c].pc = "idle" /\ call'[c].pc # "idle"
     /\ sent' # NoFrame =>
          /\ \A k \in 1..Len(idLog) : idLog[k] # sent'.id
          /\ call[pending'[sent'.id]].pc = "resume"
     /\ \A c \in Calls : call[c].pc = "returned" => call'[c] = call[c]
     /\ \A c \in Calls :
          (call[c].pc = "idle" /\ call'[c].pc \in {"waitOpen", "resume"}
             /\ ws # 0 /\ readyState[ws] \in {CLOSING, CLOSED}) =>
            /\ ws' # ws /\ terminated'[ws]
            /\ readyState'[ws'] = CONNECTING
            /\ call'[c].sock = ws']_vars

\* C18 witness: the first connection, on which request 1 was sent, is closed
\* and was discarded, and the next call has just completed on the second one
C18_Witness ==
  /\ readyState[1] = CLOSED /\ terminated[1]
  /\ idLog = <<1, 2>>
  /\ \E r \in returns : r.outcome = "result" /\ r.sock = 2 /\ r.id = 2

\* C19: a pending call is rejected with socket_closed only when the
\* connection its request was sent on closes: the late close of a connection
\* that ensureSocket discarded leaves the calls of the newer connection
\* alone.  (Every close handler drains the one pending map: violated.)
C19_CloseRejectsOwnCallsOnly ==
  \A r \in returns :
    (r.outcome = "socket_closed" /\ r.id # 0) => readyState[r.sock] = CLOSED

\* C20: every invocation of callBridge settles in the end, whatever the
\* connection and the peer do, provided armed timers fire: a call waiting for
\* the connection to open, about to send, or waiting for its reply always
\* comes to return.
C20_EveryCallSettles ==
  \A c \in Calls :
    (call[c].pc \in {"waitOpen", "resume", "awaitReply"}) ~> (call[c].pc = "returned")

\* C20 witness: every invocation has returned, the last one through its
\* timer because no reply came
C20_Witness ==
  /\ \A c \in Calls : call[c].pc = "returned"
  /\ \E r \in returns : r.outcome = "timeout"

====
